---- MODULE Spec2Model ----
(***************************************************************************)
(* unlazer (app.ts): export of an osu!lazer beatmap library to the folder  *)
(* layout of osu!(stable).  The model covers getFilePaths (folder names    *)
(* and path pairs), copyFile / linkFile and main's control flow.           *)
(*                                                                         *)
(* A string is a sequence of atoms.  An atom is either one special         *)
(* character (a separator, a blank, a bracket, a reserved character, a     *)
(* digit, a hash character) or a run of ordinary characters that the code  *)
(* never looks into ("bg.jpg", "Songs").  The platform is Windows          *)
(* (APPDATA / LOCALAPPDATA, README), so path.* is std/path/win32.          *)
(***************************************************************************)
EXTENDS Integers, Sequences, FiniteSets, TLC

VARIABLES
    sets,        \* rows of folderQuery: BeatmapSetInfo joined with BeatmapMetadata
    files,       \* rows of fileQuery: BeatmapSetFileInfo joined with FileInfo
    store,       \* hashes whose file is present in the lazer content store
    fsys,        \* the destination file system: path -> entry
    journal,     \* journal_mode of client.db
    dbOpen,      \* the DB handle of main is open (db.close() not yet called)
    run,         \* number of the current execution of main
    pc,          \* position of main
    crashAt,     \* where an exception left main ("none" when it did not)
    op,          \* the selected transfer operation
    folderNames, \* getFilePaths' folderNames object
    paths,       \* the path list returned by getFilePaths
    idx,         \* position of the for-of loop in paths
    completed,   \* main's completed counter
    rendered,    \* the values progress.render was called with
    attempts,    \* the debug log of the transfer loop: one entry per op call
    report,      \* the info-level line logged when the loop has ended
    faults,      \* I/O failures the environment may still inject
    prevFS,      \* the destination file system when the previous run ended
    prevOp       \* the transfer operation of the previous run

vars == <<sets, files, store, fsys, journal, dbOpen, run, pc, crashAt, op,
          folderNames, paths, idx, completed, rendered, attempts, report,
          faults, prevFS, prevOp>>

(***************************************************************************)
(* Bounds of the model.                                                    *)
(***************************************************************************)
MaxSets == 1
MaxRows == 2
MaxRuns == 2
MaxFaults == 1
MaxLong == 129

(***************************************************************************)
(* Strings.                                                                *)
(***************************************************************************)
Sep == "\\"

IsPathSeparator(c) == c = "\\" \/ c = "/"

\* JavaScript's undefined, and an exception travelling out of an expression.
Undefined == <<"", "undefined">>
TypeError == <<"", "TypeError">>

Digits == <<"0", "1", "2", "3", "4", "5", "6", "7", "8", "9">>

\* Number to string, as a template literal converts it.
RECURSIVE NumToStr(_)
NumToStr(n) ==
    IF n < 10 THEN <<Digits[n + 1]>>
    ELSE NumToStr(n \div 10) \o <<Digits[(n % 10) + 1]>>

\* An optional column value: <<>> is NULL, <<v>> is the value v.
Null == <<>>
Some(v) == <<v>>

\* const nc = (x) => x == null ? "" : x
nc(x) == IF x = Null THEN <<>> ELSE x[1]

RECURSIVE TrimStart(_)
TrimStart(s) ==
    IF s # <<>> /\ Head(s) = " " THEN TrimStart(Tail(s)) ELSE s

RECURSIVE TrimEnd(_)
TrimEnd(s) ==
    IF s # <<>> /\ s[Len(s)] = " " THEN TrimEnd(SubSeq(s, 1, Len(s) - 1)) ELSE s

\* String.prototype.trim
trim(s) == TrimEnd(TrimStart(s))

\* hash[0]
CharAt0(s) == IF Len(s) >= 1 THEN <<s[1]>> ELSE Undefined

\* hash.substring(0, 2)
Substring02(s) == IF Len(s) >= 2 THEN SubSeq(s, 1, 2) ELSE s

(***************************************************************************)
(* std/path/win32: normalize, join, dirname.                               *)
(***************************************************************************)
Devices == {"C:"}

\* The segments of a string between path separators (empty ones included).
RECURSIVE Split(_)
Split(s) ==
    IF s = <<>> THEN << <<>> >>
    ELSE LET rest == Split(Tail(s))
         IN  IF IsPathSeparator(Head(s)) THEN << <<>> >> \o rest
             ELSE << <<Head(s)>> \o Head(rest) >> \o Tail(rest)

\* normalizeString: drops empty and "." segments, resolves "..".
RECURSIVE NormalizeSegs(_, _, _)
NormalizeSegs(segs, acc, allowAboveRoot) ==
    IF segs = <<>> THEN acc
    ELSE LET s == Head(segs)
             next ==
                 IF s = <<>> \/ s = <<".">> THEN acc
                 ELSE IF s = <<"..">>
                      THEN IF acc # <<>> /\ acc[Len(acc)] # <<"..">>
                           THEN SubSeq(acc, 1, Len(acc) - 1)
                           ELSE IF allowAboveRoot THEN Append(acc, s) ELSE acc
                      ELSE Append(acc, s)
         IN  NormalizeSegs(Tail(segs), next, allowAboveRoot)

RECURSIVE JoinSegs(_)
JoinSegs(segs) ==
    IF segs = <<>> THEN <<>>
    ELSE IF Len(segs) = 1 THEN segs[1]
    ELSE segs[1] \o <<Sep>> \o JoinSegs(Tail(segs))

normalize(p) ==
    IF p = <<>> THEN <<".">>
    ELSE LET hasDev == p[1] \in Devices
             afterDev == IF hasDev THEN Tail(p) ELSE p
             isAbsolute == afterDev # <<>> /\ IsPathSeparator(afterDev[1])
             body == IF isAbsolute THEN Tail(afterDev) ELSE afterDev
             tail0 == JoinSegs(NormalizeSegs(Split(body), <<>>, ~isAbsolute))
             tail1 == IF tail0 = <<>> /\ ~isAbsolute THEN <<".">> ELSE tail0
             tail2 == IF tail1 # <<>> /\ IsPathSeparator(p[Len(p)])
                      THEN tail1 \o <<Sep>> ELSE tail1
         IN  (IF hasDev THEN <<p[1]>> ELSE <<>>)
             \o (IF isAbsolute THEN <<Sep>> ELSE <<>>) \o tail2

RECURSIVE Concat(_)
Concat(parts) ==
    IF parts = <<>> THEN <<>>
    ELSE IF parts[1] = <<>> THEN Concat(Tail(parts))
    ELSE LET rest == Concat(Tail(parts))
         IN  IF rest = <<>> THEN parts[1] ELSE parts[1] \o <<Sep>> \o rest

\* path.join: assertPath on every part, the non-empty parts joined by "\",
\* then normalize.
join(parts) ==
    IF \E k \in 1..Len(parts) : parts[k] \in {Undefined, TypeError}
    THEN TypeError
    ELSE LET joined == Concat(parts)
         IN  IF joined = <<>> THEN <<".">> ELSE normalize(joined)

LastSep(p) ==
    LET S == {k \in 1..Len(p) : IsPathSeparator(p[k])}
    IN  IF S = {} THEN 0 ELSE CHOOSE k \in S : \A j \in S : j <= k

RootEnd(p) ==
    IF p # <<>> /\ p[1] \in Devices
    THEN IF Len(p) >= 2 /\ IsPathSeparator(p[2]) THEN 2 ELSE 1
    ELSE IF p # <<>> /\ IsPathSeparator(p[1]) THEN 1 ELSE 0

\* path.dirname of a normalized path.
dirname(p) ==
    LET k == LastSep(p)
    IN  IF k = 0 THEN (IF RootEnd(p) = 0 THEN <<".">> ELSE SubSeq(p, 1, RootEnd(p)))
        ELSE IF k <= RootEnd(p) THEN SubSeq(p, 1, RootEnd(p))
        ELSE SubSeq(p, 1, k - 1)

(***************************************************************************)
(* Directories of the run (main, lines 155-184) and the inputs.            *)
(***************************************************************************)
lazerDir == <<"C:", Sep, "lazer">>
lazerFiles == join(<<lazerDir, <<"files">>>>)
stableDir == <<"C:", Sep, "osu!">>
stableFiles == join(<<stableDir, <<"Songs">>>>)

\* (OnlineBeatmapSetID, Artist, Author, Title) of a set.
MetaChoices ==
    { [onlineID |-> Some(100), artist |-> Some(<<"A">>), author |-> Null,
       title |-> Some(<<"B">>)],
      [onlineID |-> Null, artist |-> Some(<<"A", "/", "C">>),
       author |-> Some(<<"M">>), title |-> Some(<<"B", "?">>)],
      [onlineID |-> Some(7), artist |-> Null, author |-> Some(<<"x">>),
       title |-> Null] }

SetRow(id, m) ==
    [ID |-> id, onlineID |-> m.onlineID, artist |-> m.artist,
     author |-> m.author, title |-> m.title]

\* GROUP BY BeatmapSetInfo.ID: one row per ID.
SetTables ==
    UNION { { [k \in 1..n |-> SetRow(k, ms[k])] : ms \in [1..n -> MetaChoices] }
            : n \in 0..MaxSets }

HashA == <<"a", "b", "c">>
HashB == <<"a", "b", "d">>
Hashes == {HashA, HashB}

RowChoices ==
    { [ID |-> 1, filename |-> <<"bg.jpg">>, hash |-> HashA],
      [ID |-> 1, filename |-> <<"bg.jpg">>, hash |-> HashB],
      [ID |-> 1, filename |-> <<"sb", "/", "x.png">>, hash |-> HashA],
      [ID |-> 1, filename |-> <<"a.osu">>, hash |-> <<"a">>],
      [ID |-> 1, filename |-> <<"b.osu">>, hash |-> <<>>],
      [ID |-> MaxSets + 1, filename |-> <<"a.osu">>, hash |-> HashB] }

FileTables == UNION { [1..n -> RowChoices] : n \in 0..MaxRows }

\* Libraries for the transfer: sets that differ in nothing but their ID, and
\* files with well-formed hashes (two of them with the same destination).
PlainSetTables ==
    { [k \in 1..n |-> SetRow(k, [onlineID |-> Some(100), artist |-> Some(<<"A">>),
                                 author |-> Null, title |-> Some(<<"B">>)])]
      : n \in 0..MaxSets }

TransferRows == {r \in RowChoices : r.ID = 1 /\ Len(r.hash) >= 2}

TransferTables == UNION { [1..n -> TransferRows] : n \in 0..MaxRows }

\* A library of n files of one set, all with the same content.
LongTable(n) ==
    SubSeq([k \in 1..n |-> [ID |-> 1, filename |-> NumToStr(k) \o <<".osu">>,
                            hash |-> HashA]], 1, n)

(***************************************************************************)
(* getFilePaths.                                                           *)
(***************************************************************************)
\* hash `9d1ab9ad1c...` -> path `9\9d\{hash}`
hashToFilePathFlat(hash) == join(<<Substring02(hash), hash>>)

hashToFilePath(hash) == join(<<CharAt0(hash), Substring02(hash), hash>>)

\* The folder name of one row of folderQuery (lines 94-96).
computeFolderName(row) ==
    normalize(trim(
        (IF row.onlineID = Null THEN <<>> ELSE NumToStr(nc(row.onlineID)))
        \o <<" ">> \o nc(row.artist) \o <<" ", "-", " ">> \o nc(row.title)
        \o <<" ", "[">> \o nc(row.author) \o <<"]">>))

\* The folderNames object after the first loop: the last row of an ID wins.
RECURSIVE buildFolderNames(_, _)
buildFolderNames(rows, acc) ==
    IF rows = <<>> THEN acc
    ELSE LET r == Head(rows)
         IN  buildFolderNames(Tail(rows),
                 [x \in DOMAIN acc \cup {r.ID} |->
                     IF x = r.ID THEN computeFolderName(r) ELSE acc[x]])

\* One iteration of the second loop: [src, dest].
pathPair(row, names, lazer, stable) ==
    [src |-> join(<<lazer, hashToFilePath(row.hash)>>),
     dest |-> join(<<stable,
                     IF row.ID \in DOMAIN names THEN names[row.ID] ELSE Undefined,
                     row.filename>>)]

\* The second loop: a TypeError out of path.join leaves the function, else
\* every row pushes its pair, in the order of the query result.
pushPairs(rows, names, lazer, stable) ==
    LET pairs == SubSeq([k \in 1..Len(rows) |->
                            pathPair(rows[k], names, lazer, stable)], 1, Len(rows))
    IN  IF \E k \in 1..Len(rows) :
               pairs[k].src = TypeError \/ pairs[k].dest = TypeError
        THEN [threw |-> TRUE, paths |-> <<>>]
        ELSE [threw |-> FALSE, paths |-> pairs]

getFilePaths(db, lazer, stable) ==
    LET names == buildFolderNames(db.sets, <<>>)
        r == pushPairs(db.files, names, lazer, stable)
    IN  [threw |-> r.threw, folderNames |-> names, paths |-> r.paths]

(***************************************************************************)
(* The file system and std/fs: ensureDirSync, copySync, ensureSymlink.     *)
(***************************************************************************)
DirEntry == [kind |-> "dir", data |-> <<>>]
FileEntry(src) == [kind |-> "file", data |-> src]
LinkEntry(src) == [kind |-> "symlink", data |-> src]

kindOf(fs, p) ==
    IF p \in DOMAIN fs THEN fs[p].kind
    ELSE IF Len(p) = RootEnd(p) THEN "dir" ELSE "none"

\* The content store holds the file of every hash in store.
srcExists(src) == \E h \in store : src = join(<<lazerFiles, hashToFilePath(h)>>)

\* lstat, then mkdir {recursive: true} when the path is not found.
RECURSIVE ensureDirSync(_, _, _)
ensureDirSync(fs, dir, fail) ==
    IF fail THEN [threw |-> TRUE, fs |-> fs]
    ELSE IF kindOf(fs, dir) = "dir" THEN [threw |-> FALSE, fs |-> fs]
    ELSE IF kindOf(fs, dir) # "none" THEN [threw |-> TRUE, fs |-> fs]
    ELSE LET up == ensureDirSync(fs, dirname(dir), FALSE)
         IN  IF up.threw THEN [threw |-> TRUE, fs |-> fs]
             ELSE [threw |-> FALSE, fs |-> up.fs @@ (dir :> DirEntry)]

copySyncOverwrite(fs, src, dest, fail) ==
    IF ~srcExists(src) \/ kindOf(fs, dest) = "dir" \/ fail
    THEN [threw |-> TRUE, fs |-> fs]
    ELSE [threw |-> FALSE,
          fs |-> [p \in DOMAIN fs \cup {dest} |->
                     IF p = dest THEN FileEntry(src) ELSE fs[p]]]

\* fs.copySync(src, dest) without {overwrite: true}.
copySync(fs, src, dest, fail) ==
    IF ~srcExists(src) THEN [threw |-> TRUE, fs |-> fs]
    ELSE IF kindOf(fs, dest) # "none" THEN [threw |-> TRUE, fs |-> fs]
    ELSE IF fail THEN [threw |-> TRUE, fs |-> fs]
    ELSE [threw |-> FALSE, fs |-> fs @@ (dest :> FileEntry(src))]

\* fs.ensureSymlink(src, dest)
ensureSymlink(fs, src, dest, fault) ==
    IF ~srcExists(src) THEN [threw |-> TRUE, fs |-> fs]
    ELSE IF kindOf(fs, dest) # "none"
         THEN [threw |-> kindOf(fs, dest) # "symlink", fs |-> fs]
    ELSE LET d == ensureDirSync(fs, dirname(dest), fault = "dir")
         IN  IF d.threw \/ fault = "xfer" THEN [threw |-> TRUE, fs |-> d.fs]
             ELSE [threw |-> FALSE, fs |-> d.fs @@ (dest :> LinkEntry(src))]

copyFileNoCatch(src, dest, fs, fault) ==
    LET d == ensureDirSync(fs, dirname(dest), fault = "dir")
        c == IF d.threw THEN d ELSE copySync(d.fs, src, dest, fault = "xfer")
    IN  [fs |-> c.fs, err |-> c.threw, threw |-> c.threw]

\* copyFile: try { ensureDirSync; copySync } catch { logger.debug(error) }
copyFile(src, dest, fs, fault) ==
    LET d == ensureDirSync(fs, dirname(dest), fault = "dir")
        c == IF d.threw THEN d ELSE copySync(d.fs, src, dest, fault = "xfer")
    IN  [fs |-> c.fs, err |-> c.threw, threw |-> FALSE]

\* linkFile: try { await ensureSymlink } catch { logger.debug(error) }
linkFile(src, dest, fs, fault) ==
    LET l == ensureSymlink(fs, src, dest, fault)
    IN  [fs |-> l.fs, err |-> l.threw, threw |-> FALSE]

(***************************************************************************)
(* main.                                                                   *)
(***************************************************************************)
RenderInterval == 128

FaultChoices == IF faults > 0 THEN {"none", "dir", "xfer"} ELSE {"none"}

FreshRun ==
    /\ pc = "start" /\ crashAt = "none" /\ op = "none" /\ dbOpen = FALSE
    /\ folderNames = <<>> /\ paths = <<>> /\ idx = 1 /\ completed = 0
    /\ rendered = <<>> /\ attempts = <<>> /\ report = "none"

Init ==
    /\ sets \in PlainSetTables
    /\ files \in TransferTables
    /\ store \in SUBSET Hashes
    /\ fsys = <<>>
    /\ journal = "WAL"
    /\ run = 1
    /\ faults = MaxFaults
    /\ prevFS = <<>>
    /\ prevOp = "none"
    /\ FreshRun

\* Every library of the bounds, every source present, no I/O failure.
InitResolve ==
    /\ sets \in SetTables
    /\ files \in FileTables
    /\ store = Hashes
    /\ fsys = <<>>
    /\ journal = "WAL"
    /\ run = 1
    /\ faults = 0
    /\ prevFS = <<>>
    /\ prevOp = "none"
    /\ FreshRun

\* One set and a long list of files, every source present, no I/O failure.
InitLong ==
    /\ sets = <<SetRow(1, [onlineID |-> Some(100), artist |-> Some(<<"A">>),
                           author |-> Null, title |-> Some(<<"B">>)])>>
    /\ \E n \in 0..MaxLong : files = LongTable(n)
    /\ store = Hashes
    /\ fsys = <<>>
    /\ journal = "WAL"
    /\ run = 1
    /\ faults = 0
    /\ prevFS = <<>>
    /\ prevOp = "none"
    /\ FreshRun

Crash(where) ==
    /\ pc' = "crashed"
    /\ crashAt' = where

\* await setJournalMode(dbPath, "OFF")
SetJournalOff(ok) ==
    /\ pc = "start"
    /\ IF ok THEN journal' = "OFF" /\ pc' = "openDB" /\ UNCHANGED crashAt
       ELSE Crash("journal") /\ UNCHANGED journal
    /\ UNCHANGED <<sets, files, store, fsys, dbOpen, run, op, folderNames, paths,
                   idx, completed, rendered, attempts, report, faults, prevFS, prevOp>>

OpenDBIgnoreFailure(ok) ==
    /\ pc = "openDB"
    /\ pc' = "rowCount"
    /\ dbOpen' = ok
    /\ crashAt' = IF ok THEN crashAt ELSE "open"
    /\ UNCHANGED <<sets, files, store, fsys, journal, run, op, folderNames, paths,
                   idx, completed, rendered, attempts, report, faults, prevFS, prevOp>>

\* const db = new DB(dbPath)
OpenDB(ok) ==
    /\ pc = "openDB"
    /\ IF ok THEN dbOpen' = TRUE /\ pc' = "rowCount" /\ UNCHANGED crashAt
       ELSE Crash("open") /\ UNCHANGED dbOpen
    /\ UNCHANGED <<sets, files, store, fsys, journal, run, op, folderNames, paths,
                   idx, completed, rendered, attempts, report, faults, prevFS, prevOp>>

\* rowCount(db, ...) three times: db.query throws when a table is missing.
RowCounts(ok) ==
    /\ pc = "rowCount"
    /\ IF ok THEN pc' = "stableDir" /\ UNCHANGED crashAt
       ELSE Crash("rowCount")
    /\ UNCHANGED <<sets, files, store, fsys, journal, dbOpen, run, op, folderNames,
                   paths, idx, completed, rendered, attempts, report, faults, prevFS, prevOp>>

\* fs.ensureDirSync(stableFiles)
EnsureStableDir(ok) ==
    /\ pc = "stableDir"
    /\ LET r == ensureDirSync(fsys, stableFiles, ~ok)
       IN  IF r.threw THEN Crash("destRoot") /\ UNCHANGED fsys
           ELSE fsys' = r.fs /\ pc' = "mode" /\ UNCHANGED crashAt
    /\ UNCHANGED <<sets, files, store, journal, dbOpen, run, op, folderNames, paths,
                   idx, completed, rendered, attempts, report, faults, prevFS, prevOp>>

\* let op = copyFile; if (mode != "copy") { mode = "symlink"; op = linkFile; }
ChooseMode(mode) ==
    /\ pc = "mode"
    /\ op' = IF mode # "copy" THEN "symlink" ELSE "copy"
    /\ pc' = "confirm"
    /\ UNCHANGED <<sets, files, store, fsys, journal, dbOpen, run, crashAt,
                   folderNames, paths, idx, completed, rendered, attempts, report,
                   faults, prevFS, prevOp>>

\* The confirmation prompt; then completed = 0 and progress.render(completed).
Confirm(yes) ==
    /\ pc = "confirm"
    /\ IF yes
       THEN /\ completed' = 0
            /\ rendered' = Append(rendered, 0)
            /\ pc' = "resolve"
            /\ UNCHANGED dbOpen
       ELSE /\ dbOpen' = FALSE
            /\ pc' = "exited"
            /\ UNCHANGED <<completed, rendered>>
    /\ UNCHANGED <<sets, files, store, fsys, journal, run, crashAt, op, folderNames,
                   paths, idx, attempts, report, faults, prevFS, prevOp>>

\* const paths = getFilePaths(db, lazerFiles, stableFiles)
Resolve ==
    /\ pc = "resolve"
    /\ LET r == getFilePaths([sets |-> sets, files |-> files], lazerFiles, stableFiles)
       IN  /\ folderNames' = r.folderNames
           /\ IF r.threw THEN Crash("resolve") /\ UNCHANGED <<paths, idx>>
              ELSE paths' = r.paths /\ idx' = 1 /\ pc' = "transfer"
                   /\ UNCHANGED crashAt
    /\ UNCHANGED <<sets, files, store, fsys, journal, dbOpen, run, op, completed,
                   rendered, attempts, report, faults, prevFS, prevOp>>

\* One iteration of the transfer loop.
Transfer(fault) ==
    /\ pc = "transfer"
    /\ idx <= Len(paths)
    /\ LET r == IF op = "copy"
                THEN copyFile(paths[idx].src, paths[idx].dest, fsys, fault)
                ELSE linkFile(paths[idx].src, paths[idx].dest, fsys, fault)
       IN  /\ fsys' = r.fs
           /\ attempts' = Append(attempts, [pair |-> idx, err |-> r.err])
           /\ IF r.threw
              THEN Crash("transfer") /\ UNCHANGED <<idx, completed, rendered>>
              ELSE /\ completed' = completed + 1
                   /\ rendered' = IF (completed + 1) % RenderInterval = 0
                                  THEN Append(rendered, completed + 1)
                                  ELSE rendered
                   /\ idx' = idx + 1
                   /\ UNCHANGED <<pc, crashAt>>
    /\ faults' = IF fault = "none" THEN faults ELSE faults - 1
    /\ UNCHANGED <<sets, files, store, journal, dbOpen, run, op, folderNames, paths,
                   report, prevFS, prevOp>>

\* After the loop: the success line, db.close(), setJournalMode(dbPath, "WAL").
Finish ==
    /\ pc = "transfer"
    /\ idx > Len(paths)
    /\ report' = "success"
    /\ dbOpen' = FALSE
    /\ journal' = "WAL"
    /\ pc' = "done"
    /\ UNCHANGED <<sets, files, store, fsys, run, crashAt, op, folderNames, paths,
                   idx, completed, rendered, attempts, faults, prevFS, prevOp>>

\* The user starts the program again on the same library.
RunAgain ==
    /\ pc = "done"
    /\ run < MaxRuns
    /\ run' = run + 1
    /\ prevFS' = fsys
    /\ prevOp' = op
    /\ pc' = "start" /\ crashAt' = "none" /\ op' = "none" /\ dbOpen' = FALSE
    /\ folderNames' = <<>> /\ paths' = <<>> /\ idx' = 1 /\ completed' = 0
    /\ rendered' = <<>> /\ attempts' = <<>> /\ report' = "none"
    /\ UNCHANGED <<sets, files, store, fsys, journal, faults>>

Next ==
    \/ \E ok \in BOOLEAN : SetJournalOff(ok)
    \/ \E ok \in BOOLEAN : OpenDB(ok)
    \/ \E ok \in BOOLEAN : RowCounts(ok)
    \/ \E ok \in BOOLEAN : EnsureStableDir(ok)
    \/ \E mode \in {"copy", "symlink"} : ChooseMode(mode)
    \/ \E yes \in BOOLEAN : Confirm(yes)
    \/ Resolve
    \/ \E fault \in FaultChoices : Transfer(fault)
    \/ Finish
    \/ RunAgain

NextOnce ==
    \/ \E ok \in BOOLEAN : SetJournalOff(ok)
    \/ \E ok \in BOOLEAN : OpenDB(ok)
    \/ \E ok \in BOOLEAN : RowCounts(ok)
    \/ \E ok \in BOOLEAN : EnsureStableDir(ok)
    \/ \E mode \in {"copy", "symlink"} : ChooseMode(mode)
    \/ \E yes \in BOOLEAN : Confirm(yes)
    \/ Resolve
    \/ \E fault \in FaultChoices : Transfer(fault)
    \/ Finish

Spec == Init /\ [][Next]_vars

SpecResolve == InitResolve /\ [][NextOnce]_vars

SpecLong == InitLong /\ [][NextOnce]_vars

(***************************************************************************)
(* Properties.                                                             *)
(***************************************************************************)
Range(s) == {s[k] : k \in 1..Len(s)}

\* getFilePaths has been called in this run.
Resolved == pc \in {"transfer", "done"} \/ crashAt \in {"resolve", "transfer"}

\* The pairs whose operation failed (an error was caught and logged).
ErrorCount == Cardinality({k \in 1..Len(attempts) : attempts[k].err})

\* C1: in the transfer loop, whatever pairs fail and for either operation, no
\* failure leaves the loop: the pairs are attempted one by one in list order,
\* completed counts them, and when the loop has ended every pair of the list
\* has been attempted and completed equals the number of pairs.
C1_EveryPairAttempted ==
    /\ crashAt # "transfer"
    /\ \A k \in 1..Len(attempts) : attempts[k].pair = k
    /\ pc \in {"transfer", "done"} =>
           /\ completed = Len(attempts)
           /\ idx = completed + 1
    /\ pc = "done" =>
           /\ Len(attempts) = Len(paths)
           /\ completed = Len(paths)

\* The loop has ended although an earlier pair of the list had failed.
C1_Witness ==
    /\ pc = "done"
    /\ Len(paths) >= 2
    /\ attempts[1].err
    /\ ~attempts[2].err

\* C2: when the run has ended, the report tells a run in which some pair failed
\* from a clean run (the reported outcome is "success" only if no pair failed).
C2_ErrorsReported ==
    pc = "done" => (report = "success" <=> ErrorCount = 0)

\* C3: when every file row has its set in the folder-name mapping and a hash of
\* at least two characters, getFilePaths returns one pair per row, in the order
\* of the rows: the source is lazerFiles\h[0]\h[0:2]\h and the destination is
\* the path stableFiles, folder name of the set, filename.
C3_OnePairPerRow ==
    (/\ Resolved
     /\ \A k \in 1..Len(files) :
            files[k].ID \in DOMAIN folderNames /\ Len(files[k].hash) >= 2)
    => /\ crashAt # "resolve"
       /\ Len(paths) = Len(files)
       /\ \A k \in 1..Len(files) :
              LET h == files[k].hash
              IN  /\ paths[k].src =
                         lazerFiles \o <<Sep, h[1], Sep, h[1], h[2], Sep>> \o h
                  /\ Split(paths[k].dest) =
                         Split(stableFiles) \o Split(folderNames[files[k].ID])
                         \o Split(files[k].filename)

\* Two different rows with the same destination have been resolved into two
\* pairs.
C3_Witness ==
    /\ pc = "transfer"
    /\ Len(files) = 2
    /\ files[1] # files[2]
    /\ Len(paths) = 2
    /\ paths[1].dest = paths[2].dest
    /\ paths[1].src # paths[2].src

\* C4: path resolution never aborts: a row whose set has no folder name or whose
\* hash is shorter than two characters is skipped, and the other rows are
\* resolved.
C4_SkipAndReport ==
    /\ crashAt # "resolve"
    /\ pc \in {"transfer", "done"} =>
           Len(paths) = Cardinality({k \in 1..Len(files) :
                            /\ files[k].ID \in DOMAIN folderNames
                            /\ Len(files[k].hash) >= 2})

\* C5: the folder name of a set without Author has no bracket; the set
\* (100, "A", "B", no author) is named "100 A - B".
C5_NoAuthorNoBracket ==
    \A k \in 1..Len(sets) :
        (sets[k].ID \in DOMAIN folderNames /\ sets[k].author = Null) =>
            /\ "[" \notin Range(folderNames[sets[k].ID])
            /\ "]" \notin Range(folderNames[sets[k].ID])
            /\ (/\ sets[k].onlineID = Some(100)
                /\ sets[k].artist = Some(<<"A">>)
                /\ sets[k].title = Some(<<"B">>))
               => folderNames[sets[k].ID] =
                      <<"1", "0", "0", " ", "A", " ", "-", " ", "B">>

Reserved == {"<", ">", ":", "\"", "/", "\\", "|", "?", "*"}

\* C6: no folder name of the folder-name mapping contains one of the characters
\* < > : " / \ | ? *
C6_NoReservedCharacter ==
    \A id \in DOMAIN folderNames : Range(folderNames[id]) \cap Reserved = {}

\* C7: a run in copy mode that follows a run in copy mode raises nothing out of
\* the loop, attempts every pair, and leaves every entry of the destination as
\* the previous run left it; when no I/O failure was injected it adds nothing
\* either.
C7_SecondCopyRunIdempotent ==
    (run >= 2 /\ prevOp = "copy" /\ op = "copy") =>
        /\ crashAt # "transfer"
        /\ \A p \in DOMAIN prevFS : p \in DOMAIN fsys /\ fsys[p] = prevFS[p]
        /\ faults = MaxFaults => fsys = prevFS
        /\ pc = "done" =>
               /\ Len(attempts) = Len(paths)
               /\ completed = Len(paths)

\* The second run, in copy mode, has ended after it met a destination file that
\* the first run had copied.
C7_Witness ==
    /\ run = 2
    /\ pc = "done"
    /\ prevOp = "copy"
    /\ op = "copy"
    /\ \E k \in 1..Len(attempts) :
           /\ attempts[k].err
           /\ srcExists(paths[k].src)
           /\ kindOf(prevFS, paths[k].dest) = "file"

\* C8: when the loop has ended, the last value given to progress.render is the
\* number of pairs processed, and the values given are non-decreasing.
C8_LastRenderIsTotal ==
    /\ \A k \in 1..(Len(rendered) - 1) : rendered[k] <= rendered[k + 1]
    /\ pc = "done" =>
           /\ rendered # <<>>
           /\ rendered[Len(rendered)] = completed

SetupStages == {"journal", "open", "rowCount", "destRoot"}

\* C9: a run whose setup failed (journal mode, opening the database, the row
\* counts, the destination root) has stopped there: it has attempted no pair
\* and written nothing; and a pair is attempted only when the whole path list
\* has been resolved.
C9_SetupFailureAborts ==
    /\ crashAt \in SetupStages =>
           /\ pc = "crashed"
           /\ attempts = <<>>
           /\ paths = <<>>
           /\ fsys = prevFS
    /\ attempts # <<>> =>
           /\ Resolved
           /\ Len(paths) = Len(files)

\* The database could not be opened although the library has files to
\* transfer.
C9_Witness ==
    /\ pc = "crashed"
    /\ crashAt = "open"
    /\ sets # <<>>
    /\ Len(files) >= 2

\* C10: when a run that has set the journal mode to OFF has ended, the journal
\* mode is WAL again and the database handle is closed.
C10_JournalRestored ==
    (pc \in {"done", "exited", "crashed"} /\ crashAt # "journal") =>
        /\ journal = "WAL"
        /\ ~dbOpen

====
